---- MODULE Spec2Model ----
(***************************************************************************)
(* The live ingestion path of the museum data pipeline:                    *)
(* process_kafka_data (kafka_to_db.py) polls a Kafka consumer, decodes and *)
(* validates each message, reformats it with transform_kafka_data and      *)
(* writes it with move_to_db, which maps a rating to its RatingID with     *)
(* tuple_switch_one (pipeline.py).                                         *)
(***************************************************************************)
EXTENDS Integers, Sequences, FiniteSets, TLC

\* Number of consumer.poll calls explored in one run of the loop.
MaxPolls == 2

(***************************************************************************)
(* Python values.  A value carries its type, so that 5 and "5" differ.     *)
(***************************************************************************)
PyNone == [t |-> "NoneType"]
PyInt(n) == [t |-> "int", v |-> n]
PyStr(s) == [t |-> "str", v |-> s]

\* str(x) for a one-digit x, as used by [str(x) for x in range(6)].
str(x) == <<"0", "1", "2", "3", "4", "5", "6", "7", "8", "9">>[x + 1]

\* s.rjust(width, fill): pad on the left up to width, never truncate.
RECURSIVE rjust(_, _, _)
rjust(s, width, fill) ==
    IF Len(s) >= width THEN s ELSE rjust(fill \o s, width, fill)

(***************************************************************************)
(* The text of an 'at' field.  layout is the shape of the text; a text of  *)
(* layout "%Y-%m-%dT%H:%M:%S.%f%z" carries the fields strptime reads from  *)
(* it (z is the UTC offset in minutes).                                    *)
(***************************************************************************)
IsoLayout == "%Y-%m-%dT%H:%M:%S.%f%z"

\* "2024-01-01T10:00:00.000000+00:00"
AtUtc == [layout |-> IsoLayout, Y |-> 2024, m |-> 1, d |-> 1,
          H |-> 10, M |-> 0, S |-> 0, f |-> 0, z |-> 0]
\* "2024-01-01T11:00:00.000000+01:00", the same instant as AtUtc
AtPlusOne == [layout |-> IsoLayout, Y |-> 2024, m |-> 1, d |-> 1,
              H |-> 11, M |-> 0, S |-> 0, f |-> 0, z |-> 60]
\* "2024-01-01 10:00:00", a text the format string does not match
AtNoZone == [layout |-> "%Y-%m-%d %H:%M:%S", Y |-> 2024, m |-> 1, d |-> 1,
             H |-> 10, M |-> 0, S |-> 0, f |-> 0, z |-> 0]

\* datetime.strptime(text, '%Y-%m-%dT%H:%M:%S.%f%z'): ValueError unless the
\* text has the layout of the format string.
strptime(text) ==
    IF text.layout = IsoLayout
    THEN [ok |-> TRUE,
          time |-> [Y |-> text.Y, m |-> text.m, d |-> text.d, H |-> text.H,
                    M |-> text.M, S |-> text.S, f |-> text.f,
                    tzinfo |-> text.z]]
    ELSE [ok |-> FALSE, time |-> PyNone]

\* time.strftime('%m/%d/%y %H:%M:%S'): the fields of the aware datetime as
\* they stand, <<MM, DD, YY, HH, MM, SS>>; tzinfo is not consulted.
strftime(time) ==
    <<time.m, time.d, time.Y % 100, time.H, time.M, time.S>>

(***************************************************************************)
(* Messages returned by consumer.poll.                                     *)
(***************************************************************************)
Keys == {"at", "site", "val", "type"}

FieldValues(k) ==
    CASE k = "at" -> {PyStr(AtUtc), PyStr(AtPlusOne), PyStr(AtNoZone)}
      [] k = "site" -> {PyStr("5"), PyStr("6"), PyStr("05"), PyInt(5)}
      [] k = "val" -> {PyInt(-1), PyInt(0), PyInt(4), PyInt(5), PyStr("4")}
      [] k = "type" -> {PyInt(0), PyInt(1), PyInt(2)}

\* The JSON objects a payload can hold: any subset of the keys, each key
\* with one of its values.
Dicts ==
    {[k \in K |-> full[k]] :
        full \in [at : FieldValues("at"), site : FieldValues("site"),
                  val : FieldValues("val"), type : FieldValues("type")],
        K \in SUBSET Keys}

\* msg_dict before its first assignment.
Unbound == [unbound |-> PyNone]

\* kind: "undecodable" bytes that are not UTF-8; "malformed" text that is
\* not JSON; "error_event" a message whose error() is set and whose value is
\* the error text; "not_object" JSON that is not an object, such as [];
\* "json" a JSON object.
Messages ==
    {[kind |-> k, obj |-> Unbound] :
        k \in {"undecodable", "malformed", "error_event", "not_object"}}
    \cup {[kind |-> "json", obj |-> d] : d \in Dicts}

NoMsg == [kind |-> "none", obj |-> Unbound]

(***************************************************************************)
(* Exceptions.                                                             *)
(***************************************************************************)
Exc(type) == [type |-> type, fatal |-> FALSE]
KafkaException(fatal) == [type |-> "KafkaException", fatal |-> fatal]
NoExc == Exc("none")

\* except KafkaException / except KafkaError of the inner try (KafkaError
\* derives from Exception, so naming it in an except clause is legal).
InnerCatches(e) == e.type \in {"KafkaException", "KafkaError"}

OuterCatches_kafka(e) == e.type = "KafkaException"

\* except KeyboardInterrupt: pass of the outer try.
OuterCatches(e) == e.type = "KeyboardInterrupt"

(***************************************************************************)
(* Validation, lines 100-126.                                              *)
(***************************************************************************)
MissingField(d) ==
    \/ "at" \notin DOMAIN d
    \/ "site" \notin DOMAIN d
    \/ "val" \notin DOMAIN d

PyLen(x) == IF x.t = "str" THEN Len(x.v) ELSE 0

InvalidSite(d) ==
    \/ d.site \notin {PyStr(str(x)) : x \in 0..5}
    \/ PyLen(d.site) # 1

InvalidVal(d) == d.val \notin {PyInt(x) : x \in -1..4}

InvalidType(d) ==
    /\ "type" \in DOMAIN d
    /\ d.type \notin {PyInt(0), PyInt(1)}

validate_skips_presence(d) ==
    IF "site" \in DOMAIN d /\ InvalidSite(d) THEN "InvalidSite"
    ELSE IF "val" \in DOMAIN d /\ InvalidVal(d) THEN "InvalidValue"
    ELSE IF InvalidType(d) THEN "InvalidType"
    ELSE "ok"

\* The first failing check, or "ok".
validate(d) ==
    IF MissingField(d) THEN "MissingField"
    ELSE IF InvalidSite(d) THEN "InvalidSite"
    ELSE IF InvalidVal(d) THEN "InvalidValue"
    ELSE IF InvalidType(d) THEN "InvalidType"
    ELSE "ok"

\* The 'Error: ...' line logged for a failed check.
ErrorLine(verdict) ==
    CASE verdict = "MissingField" -> "Error: Missing 'at', 'site', or 'val'"
      [] verdict = "InvalidSite" -> "Error: Invalid exhibition number"
      [] verdict = "InvalidValue" -> "Error: Value out of range"
      [] verdict = "InvalidType" -> "Error: Invalid type given"

(***************************************************************************)
(* transform_kafka_data.                                                   *)
(***************************************************************************)
\* The exception transform_kafka_data raises on data, or "none".
transform_raises(data) ==
    IF "at" \notin DOMAIN data THEN "KeyError"
    ELSE IF data.at.t # "str" THEN "TypeError"
    ELSE IF ~strptime(data.at.v).ok THEN "ValueError"
    ELSE IF "site" \notin DOMAIN data THEN "KeyError"
    ELSE IF data.site.t # "str" THEN "AttributeError"
    ELSE IF "val" \notin DOMAIN data THEN "KeyError"
    ELSE "none"

transform_kafka_data(data) ==
    [at |-> strftime(strptime(data.at.v).time),
     site |-> "EXH_0" \o rjust(data.site.v, 1, "0"),
     val |-> data.val,
     type |-> IF "type" \in DOMAIN data THEN data.type ELSE PyNone]

NoData == [at |-> <<>>, site |-> "", val |-> PyNone, type |-> PyNone]

(***************************************************************************)
(* tuple_switch_one and the Rating table.                                  *)
(***************************************************************************)
tuple_switch_one_second(val, list_of_tuples) ==
    LET hits == {i \in 1..Len(list_of_tuples) : val = list_of_tuples[i][2]}
    IN  IF hits = {} THEN [found |-> FALSE, id |-> PyNone]
        ELSE [found |-> TRUE,
              id |-> list_of_tuples[CHOOSE i \in hits :
                                      \A j \in hits : i <= j][2]]

\* The first element of the first tuple whose second element equals val;
\* ValueError("Not found!") when there is none.
tuple_switch_one(val, list_of_tuples) ==
    LET hits == {i \in 1..Len(list_of_tuples) : val = list_of_tuples[i][2]}
    IN  IF hits = {} THEN [found |-> FALSE, id |-> PyNone]
        ELSE [found |-> TRUE,
              id |-> list_of_tuples[CHOOSE i \in hits :
                                      \A j \in hits : i <= j][1]]

\* Rating as populate_rating_table fills it: ratings 0..4 in order, the
\* serial RatingID counting from 1.
SeededRating == [i \in 1..5 |-> <<PyInt(i), PyInt(i - 1)>>]

\* The Rating table at start-up: seeded, or still empty.
RatingTables == {SeededRating, <<>>}

(***************************************************************************)
(* State of one call of process_kafka_data(consumer, topic, connection).   *)
(***************************************************************************)
VARIABLES
    pc,                \* the statement the function is at
    polls,             \* consumer.poll calls made so far
    msg,               \* the message the last poll returned
    msg_dict,          \* the decoded payload
    transformed_data,  \* the record built by transform_kafka_data
    raised,            \* the exception that left the while loop, or NoExc
    consumer,          \* "created", "subscribed" or "closed"
    connection,        \* "open" or "closed"
    Rating,            \* rows (RatingID, Rating) of the Rating table
    Vote,              \* committed rows (ExhibitionID, VoteTime, RatingID)
    Assistance,        \* committed rows (ExhibitionID, AssistanceTime)
    Emergency,         \* committed rows (ExhibitionID, EmergencyTime)
    txn,               \* rows inserted on the connection and not yet committed
    log,               \* the 'Error: ...' and 'Kafka error: ...' lines logged
    console            \* the records printed as the live data feed

vars == <<pc, polls, msg, msg_dict, transformed_data, raised, consumer,
          connection, Rating, Vote, Assistance, Emergency, txn, log, console>>

tables == <<Vote, Assistance, Emergency>>
locals == <<msg, msg_dict, transformed_data>>
handles == <<consumer, connection>>

\* The statements inside the while loop.
LoopPcs == {"poll", "decode", "transform", "move_to_db", "commit", "print"}

Init ==
    /\ pc = "subscribe"
    /\ polls = 0
    /\ msg = NoMsg
    /\ msg_dict = Unbound
    /\ transformed_data = NoData
    /\ raised = NoExc
    /\ consumer = "created"
    /\ connection = "open"
    /\ Rating \in RatingTables
    /\ Vote = <<>>
    /\ Assistance = <<>>
    /\ Emergency = <<>>
    /\ txn = <<>>
    /\ log = <<>>
    /\ console = <<>>

\* The state of the consumer loop in the words of the design: Starting,
\* Running, then Draining and Stopped on the clean exit, Crashed otherwise.
LoopState ==
    IF pc = "subscribe" THEN "Starting"
    ELSE IF pc \in LoopPcs THEN "Running"
    ELSE IF ~OuterCatches(raised) THEN "Crashed"
    ELSE IF pc = "done" THEN "Stopped"
    ELSE "Draining"

LeaveLoop_no_finally(e) ==
    /\ raised' = e
    /\ pc' = "done"

\* An exception e leaves the while loop: the outer try ends and the finally
\* block runs next.
LeaveLoop(e) ==
    /\ raised' = e
    /\ pc' = "close_consumer"

\* The top of the loop: the locals of the finished iteration are dead, poll
\* overwrites msg and every path to a read of msg_dict or transformed_data
\* assigns it first.
NextIteration ==
    /\ pc' = "poll"
    /\ msg' = NoMsg
    /\ msg_dict' = Unbound
    /\ transformed_data' = NoData

\* consumer.subscribe([topic])
Subscribe ==
    /\ pc = "subscribe"
    /\ consumer' = "subscribed"
    /\ pc' = "poll"
    /\ UNCHANGED <<polls, locals, raised, connection, Rating, tables, txn,
                   log, console>>

\* msg = consumer.poll(1.0) returns None: continue.
PollNone ==
    /\ pc = "poll"
    /\ polls < MaxPolls
    /\ polls' = polls + 1
    /\ UNCHANGED <<pc, locals, raised, handles, Rating, tables, txn, log,
                   console>>

\* msg = consumer.poll(1.0) returns a message.
PollMessage ==
    /\ pc = "poll"
    /\ polls < MaxPolls
    /\ polls' = polls + 1
    /\ \E m \in Messages : msg' = m
    /\ pc' = "decode"
    /\ UNCHANGED <<msg_dict, transformed_data, raised, handles, Rating,
                   tables, txn, log, console>>

\* consumer.poll(1.0) raises KafkaException, fatal or not: the call is
\* outside the inner try, so the exception leaves the loop.
PollRaises ==
    /\ pc = "poll"
    /\ polls < MaxPolls
    /\ polls' = polls + 1
    /\ \E fatal \in BOOLEAN : LeaveLoop(KafkaException(fatal))
    /\ UNCHANGED <<locals, handles, Rating, tables, txn, log, console>>

\* The exception msg.value().decode(), json.loads or msg_dict.keys() raise
\* on m, or "none".
decode_raises(m) ==
    CASE m.kind = "undecodable" -> "UnicodeDecodeError"
      [] m.kind \in {"malformed", "error_event"} -> "JSONDecodeError"
      [] m.kind = "not_object" -> "AttributeError"
      [] OTHER -> "none"

\* The body of the inner try with its except clauses: decode, parse, check.
\* The two lines logged for a rejected message ('Message: ...', then
\* 'Error: ...') are one entry of log, the error line.
DecodeValidate ==
    /\ pc = "decode"
    /\ IF decode_raises(msg) # "none"
       THEN IF InnerCatches(Exc(decode_raises(msg)))
            THEN /\ log' = Append(log, "Kafka error")
                 /\ pc' = "transform"
                 /\ UNCHANGED <<locals, raised>>
            ELSE /\ LeaveLoop(Exc(decode_raises(msg)))
                 /\ UNCHANGED <<locals, log>>
       ELSE IF validate(msg.obj) = "ok"
            THEN /\ msg_dict' = msg.obj
                 /\ pc' = "transform"
                 /\ UNCHANGED <<msg, transformed_data, raised, log>>
            ELSE /\ log' = Append(log, ErrorLine(validate(msg.obj)))
                 /\ NextIteration
                 /\ UNCHANGED raised
    /\ UNCHANGED <<polls, handles, Rating, tables, txn, console>>

\* transformed_data = transform_kafka_data(msg_dict)
Transform ==
    /\ pc = "transform"
    /\ IF transform_raises(msg_dict) # "none"
       THEN /\ LeaveLoop(Exc(transform_raises(msg_dict)))
            /\ UNCHANGED locals
       ELSE /\ transformed_data' = transform_kafka_data(msg_dict)
            /\ pc' = "move_to_db"
            /\ UNCHANGED <<msg, msg_dict, raised>>
    /\ UNCHANGED <<polls, handles, Rating, tables, txn, log, console>>

\* The branch move_to_db takes on data.
route_swapped(data) ==
    IF data.val # PyInt(-1) THEN "Vote"
    ELSE IF data.val = PyInt(-1) /\ data.type = PyInt(0) THEN "Emergency"
    ELSE IF data.val = PyInt(-1) /\ data.type = PyInt(1) THEN "Assistance"
    ELSE "none"

route(data) ==
    IF data.val # PyInt(-1) THEN "Vote"
    ELSE IF data.val = PyInt(-1) /\ data.type = PyInt(0) THEN "Assistance"
    ELSE IF data.val = PyInt(-1) /\ data.type = PyInt(1) THEN "Emergency"
    ELSE "none"

\* The INSERT move_to_db executes for data: its table and its parameters.
statement(data, rating_data) ==
    IF route(data) = "Vote"
    THEN [table |-> "Vote",
          row |-> <<data.site, data.at,
                    tuple_switch_one(data.val, rating_data).id>>]
    ELSE [table |-> route(data), row |-> <<data.site, data.at>>]

\* move_to_db up to its commit: the SELECT on Rating and tuple_switch_one for
\* a vote, then cursor.execute of the INSERT.  A statement the database
\* rejects raises psycopg2.Error.
MoveToDbExecute ==
    /\ pc = "move_to_db"
    /\ IF route(transformed_data) = "none"
       THEN /\ pc' = "print"
            /\ UNCHANGED <<raised, txn>>
       ELSE \E db_ok \in BOOLEAN :
            IF ~db_ok
            THEN /\ LeaveLoop(Exc("psycopg2.Error"))
                 /\ UNCHANGED txn
            ELSE IF /\ route(transformed_data) = "Vote"
                    /\ ~tuple_switch_one(transformed_data.val, Rating).found
            THEN /\ LeaveLoop(Exc("ValueError"))
                 /\ UNCHANGED txn
            ELSE /\ txn' = Append(txn, statement(transformed_data, Rating))
                 /\ pc' = "commit"
                 /\ UNCHANGED raised
    /\ UNCHANGED <<polls, locals, handles, Rating, tables, log, console>>

\* The rows of table t once the statements of pending are committed.
Committed(t, rows, pending) ==
    rows \o [i \in 1..Len(SelectSeq(pending, LAMBDA s : s.table = t)) |->
                SelectSeq(pending, LAMBDA s : s.table = t)[i].row]

MoveToDbCommit_skipped ==
    /\ pc = "commit"
    /\ pc' = "print"
    /\ UNCHANGED <<polls, locals, raised, handles, Rating, tables, txn, log,
                   console>>

\* connection.commit()
MoveToDbCommit ==
    /\ pc = "commit"
    /\ \E db_ok \in BOOLEAN :
         IF db_ok
         THEN /\ Vote' = Committed("Vote", Vote, txn)
              /\ Assistance' = Committed("Assistance", Assistance, txn)
              /\ Emergency' = Committed("Emergency", Emergency, txn)
              /\ txn' = <<>>
              /\ pc' = "print"
              /\ UNCHANGED raised
         ELSE /\ LeaveLoop(Exc("psycopg2.Error"))
              /\ UNCHANGED <<tables, txn>>
    /\ UNCHANGED <<polls, locals, handles, Rating, log, console>>

\* print(transformed_data), then the next iteration.
PrintFeed ==
    /\ pc = "print"
    /\ console' = Append(console, transformed_data)
    /\ NextIteration
    /\ UNCHANGED <<polls, raised, handles, Rating, tables, txn, log>>

\* The operator's interrupt arrives at any statement of the loop.
KeyboardInterrupt ==
    /\ pc \in LoopPcs
    /\ LeaveLoop(Exc("KeyboardInterrupt"))
    /\ UNCHANGED <<polls, locals, handles, Rating, tables, txn, log, console>>

\* finally: consumer.close()
CloseConsumer ==
    /\ pc = "close_consumer"
    /\ consumer' = "closed"
    /\ pc' = "close_connection"
    /\ UNCHANGED <<polls, locals, raised, connection, Rating, tables, txn,
                   log, console>>

\* finally: connection.close(); rows not committed are discarded with it.
\* The function then returns, or re-raises the exception it did not catch.
CloseConnection ==
    /\ pc = "close_connection"
    /\ connection' = "closed"
    /\ txn' = <<>>
    /\ pc' = "done"
    /\ UNCHANGED <<polls, locals, raised, consumer, Rating, tables, log,
                   console>>

Next ==
    \/ Subscribe
    \/ PollNone
    \/ PollMessage
    \/ PollRaises
    \/ DecodeValidate
    \/ Transform
    \/ MoveToDbExecute
    \/ MoveToDbCommit
    \/ PrintFeed
    \/ KeyboardInterrupt
    \/ CloseConsumer
    \/ CloseConnection

Spec == Init /\ [][Next]_vars

(***************************************************************************)
(* Properties.                                                             *)
(***************************************************************************)
\* The step is the arrival of the operator's interrupt.
SignalArrives ==
    /\ raised.type # "KeyboardInterrupt"
    /\ raised'.type = "KeyboardInterrupt"

\* The RatingIDs the Rating table pairs with the rating val.
RatingIdsOf(val) == {Rating[i][1] : i \in {j \in 1..Len(Rating) : Rating[j][2] = val}}

\* C1: a polled message whose payload cannot be decoded as UTF-8 or parsed
\* as JSON is logged and skipped: the step that handles it appends a log
\* line and goes back to poll, the loop stays Running, and the consumer and
\* the connection stay open.
C1_UndecodableIsSkipped ==
    [][(/\ pc = "decode"
        /\ msg.kind \in {"undecodable", "malformed"}
        /\ ~SignalArrives)
       => (/\ pc' = "poll"
           /\ LoopState' = "Running"
           /\ Len(log') = Len(log) + 1
           /\ consumer' = "subscribed"
           /\ connection' = "open")]_vars

\* C2: once the interrupt has arrived in the loop, no row is inserted and
\* none is committed, the loop is not re-entered, the function can always
\* take its next closing step until it is done, and when it is done the loop
\* is Stopped with the consumer and the connection closed.
C2_InterruptStopsCleanly ==
    /\ [](raised.type = "KeyboardInterrupt"
          => /\ pc \notin LoopPcs
             /\ pc = "done" \/ ENABLED (CloseConsumer \/ CloseConnection)
             /\ pc = "done" => /\ LoopState = "Stopped"
                               /\ consumer = "closed"
                               /\ connection = "closed")
    /\ [][(SignalArrives \/ raised.type = "KeyboardInterrupt")
          => /\ UNCHANGED tables
             /\ Len(txn') <= Len(txn)]_vars

\* The interrupt arrived inside an iteration, after a row had been committed
\* for the message in hand, and the function has returned.
C2_Witness ==
    /\ pc = "done"
    /\ raised.type = "KeyboardInterrupt"
    /\ LoopState = "Stopped"
    /\ msg.kind = "json"
    /\ Len(Vote) = 1
    /\ consumer = "closed"
    /\ connection = "closed"

\* C3: for a decoded message without at, site or val, the step that checks
\* it logs the missing-field error, leaves the tables, the open transaction
\* and the console as they are, and goes back to poll with the message
\* discarded.
C3_MissingFieldIsSkipped ==
    [][(/\ pc = "decode"
        /\ msg.kind = "json"
        /\ ~({"at", "site", "val"} \subseteq DOMAIN msg.obj)
        /\ ~SignalArrives)
       => (/\ log' = Append(log, "Error: Missing 'at', 'site', or 'val'")
           /\ pc' = "poll"
           /\ msg' = NoMsg
           /\ msg_dict' = Unbound
           /\ UNCHANGED <<tables, txn, console>>)]_vars

\* A message with a missing field was logged first, and the message polled
\* after it was written and echoed.
C3_Witness ==
    /\ pc = "poll"
    /\ log = <<"Error: Missing 'at', 'site', or 'val'">>
    /\ Len(console) = 1
    /\ Len(Vote) + Len(Assistance) + Len(Emergency) = 1

\* The verdict of the rules as C4 states them: presence, site, val, and the
\* type rule only for val = -1 with a type key.
C4_Verdict(d) ==
    IF ~({"at", "site", "val"} \subseteq DOMAIN d) THEN "MissingField"
    ELSE IF ~(d.site.t = "str" /\ d.site.v \in {str(x) : x \in 0..5})
    THEN "InvalidSite"
    ELSE IF ~(d.val.t = "int" /\ d.val.v \in -1..4) THEN "InvalidValue"
    ELSE IF /\ d.val = PyInt(-1)
            /\ "type" \in DOMAIN d
            /\ ~(d.type.t = "int" /\ d.type.v \in {0, 1})
    THEN "InvalidType"
    ELSE "ok"

\* C4: every decoded message is accepted (handed to the transform) exactly
\* when no rule of C4_Verdict fails, and is otherwise rejected with the log
\* line of the first failing rule.
C4_RulesInOrder ==
    [][(/\ pc = "decode"
        /\ msg.kind = "json"
        /\ ~SignalArrives)
       => IF C4_Verdict(msg.obj) = "ok"
          THEN pc' = "transform" /\ log' = log
          ELSE pc' = "poll"
               /\ log' = Append(log, ErrorLine(C4_Verdict(msg.obj)))]_vars

\* C5: for a record with val in 0..4 whose rating the Rating table holds,
\* the lookup does not miss; the INSERT that move_to_db executes is one Vote
\* row with the record's exhibition id, its timestamp and the RatingID paired
\* with val; and the commit adds exactly that row to Vote and no row to
\* Assistance or Emergency.
C5_VoteRowWritten ==
    [][(/\ transformed_data.val \in {PyInt(x) : x \in 0..4}
        /\ RatingIdsOf(transformed_data.val) # {}
        /\ ~SignalArrives)
       => /\ pc = "move_to_db"
             => /\ raised'.type \in {"none", "psycopg2.Error"}
                /\ UNCHANGED tables
                /\ pc' = "commit"
                   => \A r \in RatingIdsOf(transformed_data.val) :
                        txn' = <<[table |-> "Vote",
                                  row |-> <<transformed_data.site,
                                            transformed_data.at, r>>]>>
          /\ (pc = "commit" /\ pc' = "print")
             => /\ \A r \in RatingIdsOf(transformed_data.val) :
                     Vote' = Append(Vote, <<transformed_data.site,
                                            transformed_data.at, r>>)
                /\ UNCHANGED <<Assistance, Emergency>>
                /\ txn' = <<>>]_vars

\* move_to_db has returned for a vote of 4 at exhibition 5: the one committed
\* row carries RatingID 5, the id the seeded table pairs with rating 4.
C5_Witness ==
    /\ pc = "print"
    /\ transformed_data.val = PyInt(4)
    /\ Vote = <<<<"EXH_05", transformed_data.at, PyInt(5)>>>>
    /\ Assistance = <<>>
    /\ Emergency = <<>>
    /\ txn = <<>>

\* C6: for a record with val = -1 and type t in {0, 1}, the INSERT that
\* move_to_db executes is one row of Assistance when t = 0 and of Emergency
\* when t = 1, and the commit adds exactly that row to that table and no row
\* to the other two tables.
C6_RequestRowWritten ==
    [][(/\ transformed_data.val = PyInt(-1)
        /\ transformed_data.type \in {PyInt(0), PyInt(1)}
        /\ ~SignalArrives)
       => LET row == <<transformed_data.site, transformed_data.at>>
              table == IF transformed_data.type = PyInt(0)
                       THEN "Assistance" ELSE "Emergency"
          IN  /\ pc = "move_to_db"
                 => /\ raised'.type \in {"none", "psycopg2.Error"}
                    /\ UNCHANGED tables
                    /\ pc' = "commit"
                       => txn' = <<[table |-> table, row |-> row]>>
              /\ (pc = "commit" /\ pc' = "print")
                 => /\ Assistance' = IF table = "Assistance"
                                     THEN Append(Assistance, row)
                                     ELSE Assistance
                    /\ Emergency' = IF table = "Emergency"
                                    THEN Append(Emergency, row)
                                    ELSE Emergency
                    /\ Vote' = Vote
                    /\ txn' = <<>>]_vars

\* An assistance request and then an emergency request have been written:
\* one row in each of their tables, none in Vote.
C6_Witness ==
    /\ pc = "print"
    /\ transformed_data.val = PyInt(-1)
    /\ transformed_data.type = PyInt(1)
    /\ Len(Assistance) = 1
    /\ Emergency = <<<<transformed_data.site, transformed_data.at>>>>
    /\ Vote = <<>>

\* C7: the transform never fails on a message that passed validation: the
\* step that transforms it hands a record to move_to_db and the loop stays
\* Running.
C7_TransformNeverFails ==
    [][(pc = "transform" /\ ~SignalArrives)
       => (/\ pc' = "move_to_db"
           /\ LoopState' = "Running"
           /\ transformed_data' # NoData)]_vars

\* The record in hand is a vote whose rating the Rating table does not hold.
LookupMiss ==
    /\ pc = "move_to_db"
    /\ transformed_data.val # PyInt(-1)
    /\ RatingIdsOf(transformed_data.val) = {}

\* C8: no step of the write stage takes the loop out of Running, and a
\* lookup miss is logged and the message dropped: the step appends a log
\* line, writes nothing and goes back to poll.
C8_WriteFailureIsSkipped ==
    [][((pc \in {"move_to_db", "commit"}) /\ ~SignalArrives)
       => /\ LoopState' = "Running"
          /\ LookupMiss => /\ pc' = "poll"
                           /\ Len(log') = Len(log) + 1
                           /\ UNCHANGED <<tables, txn>>]_vars

\* C9: a broker error raised by poll that is not fatal is logged and the
\* loop keeps polling; only a fatal one takes the loop to Crashed.
C9_NonFatalBrokerErrorIsLogged ==
    [][(pc = "poll" /\ raised'.type = "KafkaException" /\ ~raised'.fatal)
       => (/\ pc' = "poll"
           /\ LoopState' = "Running"
           /\ Len(log') = Len(log) + 1)]_vars

\* C10: a record with val = -1 and no type (a validated message without a
\* type key) has no destination: move_to_db inserts nothing, logs the record
\* as dropped, and the loop stays Running.
C10_TypelessRequestIsLogged ==
    [][(/\ pc = "move_to_db"
        /\ transformed_data.val = PyInt(-1)
        /\ transformed_data.type = PyNone
        /\ ~SignalArrives)
       => (/\ UNCHANGED <<tables, txn>>
           /\ LoopState' = "Running"
           /\ Len(log') = Len(log) + 1)]_vars

\* The text MM/DD/YY HH:MM:SS of the instant that an 'at' text denotes, in
\* UTC: the offset z is taken off the wall-clock time, the day moving with it
\* (texts whose UTC day leaves the month are not among FieldValues("at")).
UtcStamp(text) ==
    LET total == text.H * 60 + text.M - text.z
        shift == IF total < 0 THEN -1 ELSE IF total >= 1440 THEN 1 ELSE 0
        minutes == total - shift * 1440
    IN  <<text.m, text.d + shift, text.Y % 100,
          minutes \div 60, minutes % 60, text.S>>

\* C11: whatever the offset of a valid at value, the timestamp of the
\* transformed record is the UTC-normalized instant as MM/DD/YY HH:MM:SS, so
\* that two at values denoting one instant give the same timestamp.
C11_TimestampIsUtc ==
    pc \in {"move_to_db", "commit", "print"}
    => transformed_data.at = UtcStamp(msg_dict.at.v)

C13_EveryExitCloses ==
    /\ pc \in LoopPcs => /\ raised = NoExc
                         /\ consumer = "subscribed"
                         /\ connection = "open"
    /\ raised # NoExc => pc \in {"close_consumer", "close_connection", "done"}
    /\ connection = "closed" => consumer = "closed"
    /\ pc \in {"close_consumer", "close_connection"}
       => ENABLED (CloseConsumer \/ CloseConnection)
    /\ pc = "done" => /\ raised # NoExc
                      /\ consumer = "closed"
                      /\ connection = "closed"
                      /\ LoopState = IF raised.type = "KeyboardInterrupt"
                                     THEN "Stopped" ELSE "Crashed"

\* An exception of the write stage left the loop after a row had been
\* committed: the function has raised with both handles closed.
C13_Witness ==
    /\ pc = "done"
    /\ raised.type = "ValueError"
    /\ LoopState = "Crashed"
    /\ consumer = "closed"
    /\ connection = "closed"
    /\ Len(console) = 1

====
